---------------------------- MODULE Spec2Model ----------------------------
(***************************************************************************)
(* A model of the memory benchmark of src/go/mem_bench.go: the             *)
(* PeakMemoryTracker (a polling goroutine that keeps the running maximum   *)
(* of the RSS metric with a compare-and-swap loop), the two task runners   *)
(* (runSingleThreaded, runMultiThreaded) and measureMemory, which wraps a  *)
(* runner in a Start/Stop measurement window.                              *)
(*                                                                         *)
(* The specifications share the variables:                                 *)
(*   Spec       measureMemory(fn, numTasks, sizeMB) for every small        *)
(*              configuration, the invalid ones included;                  *)
(*   FairSpec   Spec under the scheduler's fairness, for liveness;         *)
(*   SpecCAS    several writers running the tracker's CAS loop against one *)
(*              shared peak;                                               *)
(*   SpecAPI    a caller that calls Start and Stop of one tracker in any   *)
(*              order (Stop before Start, Stop twice).                     *)
(* An unrecovered panic ends the Go process: once panicked is set no       *)
(* action is enabled.                                                      *)
(***************************************************************************)
EXTENDS Integers, Sequences, FiniteSets

\* ------------------------------------------------------------------ bounds
MaxTicks == 2
MaxRSS == 2
MaxTasks == 2
MaxSizeMB == 1
MaxStops == 2
Baseline == 1
MaxItems == 3
MaxWorkers == 2

\* ------------------------------------------------------- program constants
KBPerMB == 1024
BytesPerMB == 1048576

\* ----------------------------------------------------------------- domains
Sampler == 0
Proposals == <<10, 50, 30, 80, 20>>
Writers == 1..Len(Proposals)
Procs == {Sampler} \cup Writers
TaskIds == 1..MaxTasks
NoValue == -1
Items == 0..(MaxItems - 1)
WorkerIds == 1..MaxWorkers
\* a pool goroutine that holds no item; a slot of result not written yet
NoItem == -1
Nil == << >>
\* ru_maxrss as the kernel reports it on Linux, in kilobytes
RSSValues == {k * KBPerMB : k \in 0..MaxRSS}

VARIABLES
    peak,        \* t.peakRSS, in MB
    stopChan,    \* t.stopChan: "open" or "closed"
    twg,         \* t.wg: the tracker's WaitGroup counter
    pc,          \* position of the polling goroutine (Sampler) and of each writer
    current,     \* the local `current` of each CAS loop
    old,         \* the local `old` of each CAS loop
    readFailed,  \* history: the sampler's last Getrusage call returned an error
    samples,     \* history: every sample fed to the tracker, Start's first
    cpc,         \* position of the calling goroutine
    fn,          \* measureMemory's fn: "single" or "multi"
    numTasks,    \* measureMemory's numTasks
    sizeMB,      \* measureMemory's sizeMB
    i,           \* the runner's loop counter
    wg,          \* runMultiThreaded's WaitGroup counter
    tpc,         \* position of each task goroutine of runMultiThreaded
    runs,        \* history: completed executions of memoryIntensiveTask per unit
    startCalls,  \* history: calls of Start
    stopCalls,   \* history: calls of Stop
    stopRet,     \* the value the last Stop returned, NoValue before
    stopReturns, \* history: calls of Stop that returned normally
    panicked,    \* "none", or the panic that ended the process
    peakSeq,     \* main: the peak measureMemory returned for the sequential run
    lateTick,    \* history: a tick was taken while the stop signal was ready
    \* the worker-pool programs (runLoadTest, mandelbrotThreaded, fetchURLs)
    nItems,      \* numRequests / SIZE / len(urls)
    nWorkers,    \* concurrency / GOMAXPROCS(0) / len(urls)
    chanBuf,     \* the buffered channel's content: work / jobs / ch
    chanClosed,  \* whether that channel has been closed
    wpc,         \* position of each pool goroutine
    held,        \* the item a pool goroutine holds (its loop variable)
    pwg,         \* the pool's WaitGroup counter
    recvd,       \* history: how often each item was received from the channel
    served,      \* history: how often each item was processed
    result,      \* mandelbrotThreaded's result slice
    dones        \* history: calls of wg.Done by each pool goroutine

vars == <<peak, stopChan, twg, pc, current, old, readFailed, samples, cpc, fn,
          numTasks, sizeMB, i, wg, tpc, runs, startCalls, stopCalls, stopRet,
          stopReturns, panicked, peakSeq, lateTick, nItems, nWorkers, chanBuf, chanClosed,
          wpc, held, pwg, recvd, served, result, dones>>

trackerVars == <<peak, stopChan, twg>>
loopVars == <<pc, current, old, readFailed>>
configVars == <<fn, numTasks, sizeMB>>
runnerVars == <<i, wg, tpc, runs>>
callVars == <<startCalls, stopCalls, stopRet, stopReturns>>
poolVars == <<nItems, nWorkers, chanBuf, chanClosed, wpc, held, pwg, recvd,
              served, result, dones>>

\* ------------------------------------------------------------ pure helpers
RECURSIVE SeqMax(_)
SeqMax(s) ==
    IF Len(s) = 1 THEN s[1]
    ELSE LET m == SeqMax(Tail(s)) IN IF s[1] > m THEN s[1] ELSE m

\* a getRSSMB that ignores the error and converts whatever rusage holds
getRSSMB_ignoresErr(err, maxrss) == maxrss \div KBPerMB

\* getRSSMB: a failed Getrusage reads as 0, otherwise kilobytes -> MB
\* (the non-darwin build; darwin divides bytes by 1024 * 1024 instead)
getRSSMB(err, maxrss) == IF err THEN 0 ELSE maxrss \div KBPerMB

\* the values one call of getRSSMB can return
Readings == {getRSSMB(err, rss) : err \in BOOLEAN, rss \in RSSValues}

\* memoryIntensiveTask: numBytes, and the two places it can panic
numBytes(sz) == sz * BytesPerMB
MakePanics(sz) == numBytes(sz) < 0
IndexPanics(sz) == numBytes(sz) = 0

\* --------------------------------------------------------------- the state
\* NewPeakMemoryTracker: channel open, WaitGroup zero, peak stored as 0
NewPeakMemoryTracker ==
    /\ peak = 0
    /\ stopChan = "open"
    /\ twg = 0

\* no worker pool exists
PoolIdle ==
    /\ nItems = 0
    /\ nWorkers = 0
    /\ chanBuf = << >>
    /\ chanClosed = FALSE
    /\ wpc = [w \in WorkerIds |-> "idle"]
    /\ held = [w \in WorkerIds |-> NoItem]
    /\ pwg = 0
    /\ recvd = [y \in Items |-> 0]
    /\ served = [y \in Items |-> 0]
    /\ result = [y \in Items |-> Nil]
    /\ dones = [w \in WorkerIds |-> 0]

InitCommon ==
    /\ NewPeakMemoryTracker
    /\ peakSeq = NoValue
    /\ lateTick = FALSE
    /\ PoolIdle
    /\ old = [p \in Procs |-> 0]
    /\ readFailed = FALSE
    /\ samples = << >>
    /\ i = 0
    /\ wg = 0
    /\ tpc = [t \in TaskIds |-> "idle"]
    /\ runs = [t \in TaskIds |-> 0]
    /\ startCalls = 0
    /\ stopCalls = 0
    /\ stopRet = NoValue
    /\ stopReturns = 0
    /\ panicked = "none"

Init ==
    /\ InitCommon
    /\ pc = [p \in Procs |-> "idle"]
    /\ current = [p \in Procs |-> 0]
    /\ cpc = "mm_start"
    /\ fn \in {"single", "multi"}
    /\ numTasks \in -1..MaxTasks
    /\ sizeMB \in -1..MaxSizeMB

Running == panicked = "none"

\* ------------------------------------------------- PeakMemoryTracker.Start
\* a Start that spawns the goroutine without recording the first sample
Start_dropsInitial(sample) ==
    /\ peak' = peak
    /\ twg' = twg + 1
    /\ pc' = [pc EXCEPT ![Sampler] = "select"]
    /\ samples' = Append(samples, sample)
    /\ startCalls' = startCalls + 1
    /\ UNCHANGED <<stopChan, current, old, readFailed>>

\* a Start that registers the goroutine with wg.Add(1) but never launches it
Start_noSpawn(sample) ==
    /\ peak' = sample
    /\ twg' = twg + 1
    /\ samples' = Append(samples, sample)
    /\ startCalls' = startCalls + 1
    /\ UNCHANGED <<stopChan, pc, current, old, readFailed>>

\* Start, lines 49-52: store the first sample, wg.Add(1), spawn the goroutine
Start(sample) ==
    /\ peak' = sample
    /\ twg' = twg + 1
    /\ pc' = [pc EXCEPT ![Sampler] = "select"]
    /\ samples' = Append(samples, sample)
    /\ startCalls' = startCalls + 1
    /\ UNCHANGED <<stopChan, current, old, readFailed>>

\* line 60: current := getRSSMB(), with the reading the call returned
TickReads(err, reading) ==
    /\ current' = [current EXCEPT ![Sampler] = reading]
    /\ readFailed' = err
    /\ samples' = Append(samples, reading)
    /\ lateTick' = (lateTick \/ stopChan = "closed")
    /\ pc' = [pc EXCEPT ![Sampler] = "load"]
    /\ UNCHANGED <<trackerVars, old, cpc, configVars, peakSeq, poolVars,
                   runnerVars, callVars, panicked>>

\* the polling goroutine, select case <-ticker.C: read the metric
Tick ==
    /\ Running
    /\ pc[Sampler] = "select"
    /\ Len(samples) <= MaxTicks
    /\ \E err \in BOOLEAN, rss \in RSSValues : TickReads(err, getRSSMB(err, rss))

\* where a CAS loop goes when it breaks
AfterBreak(p) == IF p = Sampler THEN "select" ELSE "done"

\* the comparison the wrong way round
LoadBreaks_flipped(cur, o) == cur >= o

\* lines 62-65: old := peak; break if current <= old
LoadBreaks(cur, o) == cur <= o

\* a loop that stores a greater sample at once instead of going through the CAS
Load_plainStore(p) ==
    /\ Running
    /\ pc[p] = "load"
    /\ old' = [old EXCEPT ![p] = peak]
    /\ peak' = IF LoadBreaks(current[p], peak) THEN peak ELSE current[p]
    /\ pc' = [pc EXCEPT ![p] = AfterBreak(p)]
    /\ readFailed' = IF p = Sampler THEN FALSE ELSE readFailed
    /\ UNCHANGED <<stopChan, twg, current, samples, cpc, configVars, peakSeq, lateTick, poolVars, runnerVars,
                   callVars, panicked>>

Load(p) ==
    /\ Running
    /\ pc[p] = "load"
    /\ old' = [old EXCEPT ![p] = peak]
    /\ IF LoadBreaks(current[p], peak)
       THEN /\ pc' = [pc EXCEPT ![p] = AfterBreak(p)]
            /\ readFailed' = IF p = Sampler THEN FALSE ELSE readFailed
       ELSE /\ pc' = [pc EXCEPT ![p] = "cas"]
            /\ UNCHANGED readFailed
    /\ UNCHANGED <<trackerVars, current, samples, cpc, configVars, peakSeq, lateTick, poolVars, runnerVars,
                   callVars, panicked>>

\* a swap that does not compare: a plain store
CasSucceeds_blind(stored, o) == TRUE

\* lines 66-68: CompareAndSwap(old, current); break on success, retry on failure
CasSucceeds(stored, o) == stored = o

CAS(p) ==
    /\ Running
    /\ pc[p] = "cas"
    /\ IF CasSucceeds(peak, old[p])
       THEN /\ peak' = current[p]
            /\ pc' = [pc EXCEPT ![p] = AfterBreak(p)]
            /\ readFailed' = IF p = Sampler THEN FALSE ELSE readFailed
       ELSE /\ pc' = [pc EXCEPT ![p] = "load"]
            /\ UNCHANGED <<peak, readFailed>>
    /\ UNCHANGED <<stopChan, twg, current, old, samples, cpc, configVars, peakSeq, lateTick, poolVars,
                   runnerVars, callVars, panicked>>

\* a goroutine that returns on the stop signal without the deferred wg.Done
Exit_noDone ==
    /\ Running
    /\ pc[Sampler] = "select"
    /\ stopChan = "closed"
    /\ pc' = [pc EXCEPT ![Sampler] = "exited"]
    /\ UNCHANGED <<peak, stopChan, twg, current, old, readFailed, samples, cpc,
                   configVars, peakSeq, lateTick, poolVars, runnerVars, callVars,
                   panicked>>

\* select case <-t.stopChan: return; the deferred wg.Done runs
Exit ==
    /\ Running
    /\ pc[Sampler] = "select"
    /\ stopChan = "closed"
    /\ pc' = [pc EXCEPT ![Sampler] = "exited"]
    /\ twg' = twg - 1
    /\ UNCHANGED <<peak, stopChan, current, old, readFailed, samples, cpc,
                   configVars, peakSeq, lateTick, poolVars, runnerVars, callVars, panicked>>

\* -------------------------------------------------- PeakMemoryTracker.Stop
\* a Stop that signals with a flag: setting it twice is harmless
StopClose_noPanic(from) ==
    /\ Running
    /\ cpc = from
    /\ stopCalls' = stopCalls + 1
    /\ stopChan' = "closed"
    /\ cpc' = "stop_wait"
    /\ UNCHANGED <<peak, twg, loopVars, samples, configVars, peakSeq, lateTick, poolVars, runnerVars,
                   startCalls, stopRet, stopReturns, panicked>>

\* line 78: close(t.stopChan); closing a closed channel panics
StopClose(from) ==
    /\ Running
    /\ cpc = from
    /\ stopCalls' = stopCalls + 1
    /\ IF stopChan = "closed"
       THEN /\ panicked' = "close of closed channel"
            /\ UNCHANGED <<stopChan, cpc>>
       ELSE /\ stopChan' = "closed"
            /\ cpc' = "stop_wait"
            /\ UNCHANGED panicked
    /\ UNCHANGED <<peak, twg, loopVars, samples, configVars, peakSeq, lateTick, poolVars, runnerVars,
                   startCalls, stopRet, stopReturns>>

\* a Stop that does not wait for the goroutine
TrackerWaitReturns_noWait(counter) == TRUE

\* line 79: t.wg.Wait() returns once the counter is zero
TrackerWaitReturns(counter) == counter = 0

StopWait ==
    /\ Running
    /\ cpc = "stop_wait"
    /\ TrackerWaitReturns(twg)
    /\ cpc' = "stop_load"
    /\ UNCHANGED <<trackerVars, loopVars, samples, configVars, peakSeq, lateTick, poolVars, runnerVars,
                   callVars, panicked>>

\* line 80: return t.peakRSS.Load()
StopLoad(to) ==
    /\ Running
    /\ cpc = "stop_load"
    /\ stopRet' = peak
    /\ stopReturns' = stopReturns + 1
    /\ cpc' = to
    /\ UNCHANGED <<trackerVars, loopVars, samples, configVars, peakSeq, lateTick, poolVars, runnerVars,
                   startCalls, stopCalls, panicked>>

\* ----------------------------------------------------------- measureMemory
\* lines 134-135: tracker.Start()
MM_Start ==
    /\ Running
    /\ cpc = "mm_start"
    /\ \E s \in Readings : Start(s)
    /\ cpc' = "mm_call"
    /\ UNCHANGED <<configVars, peakSeq, lateTick, poolVars, runnerVars, stopCalls, stopRet, stopReturns, panicked>>

\* line 138: fn(numTasks, sizeMB)
MM_CallFn ==
    /\ Running
    /\ cpc = "mm_call"
    /\ cpc' = IF fn = "single" THEN "rs_loop" ELSE "rm_add"
    /\ i' = 0
    /\ UNCHANGED <<trackerVars, loopVars, samples, configVars, peakSeq, lateTick, poolVars, wg, tpc, runs,
                   callVars, panicked>>

\* line 141: tracker.Stop()
MM_StopClose == StopClose("mm_stop")
MM_StopLoad == StopLoad("mm_done")

\* ------------------------------------------------------- runSingleThreaded
\* line 109: the loop test
RS_Loop ==
    /\ Running
    /\ cpc = "rs_loop"
    /\ cpc' = IF i < numTasks THEN "rs_alloc" ELSE "mm_stop"
    /\ UNCHANGED <<trackerVars, loopVars, samples, configVars, peakSeq, lateTick, poolVars, runnerVars,
                   callVars, panicked>>

\* memoryIntensiveTask lines 86-93, in the caller: allocate and touch the pages
RS_Alloc ==
    /\ Running
    /\ cpc = "rs_alloc"
    /\ IF MakePanics(sizeMB)
       THEN /\ panicked' = "makeslice: len out of range"
            /\ UNCHANGED cpc
       ELSE /\ cpc' = "rs_hold"
            /\ UNCHANGED panicked
    /\ UNCHANGED <<trackerVars, loopVars, samples, configVars, peakSeq, lateTick, poolVars, runnerVars, callVars>>

\* memoryIntensiveTask lines 96-105, then runtime.GC() and i++
RS_Finish ==
    /\ Running
    /\ cpc = "rs_hold"
    /\ IF IndexPanics(sizeMB)
       THEN /\ panicked' = "index out of range"
            /\ UNCHANGED <<cpc, i, runs>>
       ELSE /\ cpc' = "rs_loop"
            /\ runs' = [runs EXCEPT ![i + 1] = @ + 1]
            /\ i' = i + 1
            /\ UNCHANGED panicked
    /\ UNCHANGED <<trackerVars, loopVars, samples, configVars, peakSeq, lateTick, poolVars, wg, tpc, callVars>>

\* -------------------------------------------------------- runMultiThreaded
\* line 117: wg.Add(numTasks); a negative counter panics
RM_Add ==
    /\ Running
    /\ cpc = "rm_add"
    /\ IF wg + numTasks < 0
       THEN /\ panicked' = "sync: negative WaitGroup counter"
            /\ UNCHANGED <<cpc, wg>>
       ELSE /\ wg' = wg + numTasks
            /\ cpc' = "rm_spawn"
            /\ UNCHANGED panicked
    /\ UNCHANGED <<trackerVars, loopVars, samples, configVars, peakSeq, lateTick, poolVars, i, tpc, runs, callVars>>

\* a spawn loop that runs one time too many (i <= numTasks)
RM_Spawn_offByOne ==
    /\ Running
    /\ cpc = "rm_spawn"
    /\ IF i <= numTasks
       THEN /\ tpc' = [tpc EXCEPT ![i + 1] = "alloc"]
            /\ i' = i + 1
            /\ UNCHANGED cpc
       ELSE /\ cpc' = "rm_wait"
            /\ UNCHANGED <<tpc, i>>
    /\ UNCHANGED <<trackerVars, loopVars, samples, configVars, peakSeq, lateTick, poolVars, wg, runs, callVars,
                   panicked>>

\* lines 119-124: one goroutine per unit, then line 125
RM_Spawn ==
    /\ Running
    /\ cpc = "rm_spawn"
    /\ IF i < numTasks
       THEN /\ tpc' = [tpc EXCEPT ![i + 1] = "alloc"]
            /\ i' = i + 1
            /\ UNCHANGED cpc
       ELSE /\ cpc' = "rm_wait"
            /\ UNCHANGED <<tpc, i>>
    /\ UNCHANGED <<trackerVars, loopVars, samples, configVars, peakSeq, lateTick, poolVars, wg, runs, callVars,
                   panicked>>

\* a runner that does not join its goroutines
WaitReturns_noWait(counter) == TRUE

\* line 125: wg.Wait() returns once the counter is zero
WaitReturns(counter) == counter = 0

RM_Wait ==
    /\ Running
    /\ cpc = "rm_wait"
    /\ WaitReturns(wg)
    /\ cpc' = "mm_stop"
    /\ UNCHANGED <<trackerVars, loopVars, samples, configVars, peakSeq, lateTick, poolVars, runnerVars,
                   callVars, panicked>>

\* a task goroutine: memoryIntensiveTask lines 86-93
TaskAlloc(t) ==
    /\ Running
    /\ tpc[t] = "alloc"
    /\ IF MakePanics(sizeMB)
       THEN /\ panicked' = "makeslice: len out of range"
            /\ UNCHANGED tpc
       ELSE /\ tpc' = [tpc EXCEPT ![t] = "hold"]
            /\ UNCHANGED panicked
    /\ UNCHANGED <<trackerVars, loopVars, samples, cpc, configVars, peakSeq, lateTick, poolVars, i, wg, runs,
                   callVars>>

\* a task goroutine: lines 96-105, then the deferred wg.Done
TaskFinish(t) ==
    /\ Running
    /\ tpc[t] = "hold"
    /\ IF IndexPanics(sizeMB)
       THEN /\ panicked' = "index out of range"
            /\ UNCHANGED <<tpc, wg, runs>>
       ELSE /\ tpc' = [tpc EXCEPT ![t] = "done"]
            /\ runs' = [runs EXCEPT ![t] = @ + 1]
            /\ wg' = wg - 1
            /\ UNCHANGED panicked
    /\ UNCHANGED <<trackerVars, loopVars, samples, cpc, configVars, peakSeq, lateTick, poolVars, i, callVars>>

\* ------------------------------------------------------- the specification
Next ==
    \/ MM_Start
    \/ MM_CallFn
    \/ RS_Loop
    \/ RS_Alloc
    \/ RS_Finish
    \/ RM_Add
    \/ RM_Spawn
    \/ RM_Wait
    \/ \E t \in TaskIds : TaskAlloc(t)
    \/ \E t \in TaskIds : TaskFinish(t)
    \/ MM_StopClose
    \/ StopWait
    \/ MM_StopLoad
    \/ Tick
    \/ Load(Sampler)
    \/ CAS(Sampler)
    \/ Exit

Spec == Init /\ [][Next]_vars

\* The Go scheduler runs every runnable goroutine: the caller and each task
\* goroutine take their next step if it stays enabled.
CallerNext ==
    \/ MM_Start
    \/ MM_CallFn
    \/ RS_Loop
    \/ RS_Alloc
    \/ RS_Finish
    \/ RM_Add
    \/ RM_Spawn
    \/ RM_Wait
    \/ MM_StopClose
    \/ StopWait
    \/ MM_StopLoad

TaskNext(t) == TaskAlloc(t) \/ TaskFinish(t)

SamplerNext == Load(Sampler) \/ CAS(Sampler) \/ Exit

FairSpec ==
    /\ Spec
    /\ WF_vars(CallerNext)
    /\ \A t \in TaskIds : WF_vars(TaskNext(t))
    /\ WF_vars(SamplerNext)

\* ------------------------------------------- the ticker that never runs dry
\* The ticker fires for as long as the goroutine lives.  Tick records the first
\* MaxTicks readings in the history; TickOn is every later tick, read and
\* compared like the others but not added to the history.
TickOn ==
    /\ Running
    /\ pc[Sampler] = "select"
    /\ Len(samples) > MaxTicks
    /\ \E err \in BOOLEAN, rss \in RSSValues :
          /\ current' = [current EXCEPT ![Sampler] = getRSSMB(err, rss)]
          /\ readFailed' = err
    /\ lateTick' = (lateTick \/ stopChan = "closed")
    /\ pc' = [pc EXCEPT ![Sampler] = "load"]
    /\ UNCHANGED <<trackerVars, old, samples, cpc, configVars, peakSeq, poolVars,
                   runnerVars, callVars, panicked>>

NextStop ==
    \/ Next
    \/ TickOn

\* measureMemory with a configuration that lets fn return, as main's does
\* (numTasks = 4, sizeMB = 50), made small: no unit or one, of one megabyte
InitStop ==
    /\ Init
    /\ numTasks \in 0..1
    /\ sizeMB = 1

SpecStop == InitStop /\ [][NextStop]_vars

\* the goroutine's CAS loop runs to its break once a tick has been taken
SamplerLoop == Load(Sampler) \/ CAS(Sampler)

\* The scheduler runs every runnable goroutine, and a select with several ready
\* cases picks one of them pseudo-randomly: a stop case that is ready every
\* time the goroutine comes back to the select is not passed over forever.
FairStop ==
    /\ SpecStop
    /\ WF_vars(CallerNext)
    /\ \A t \in TaskIds : WF_vars(TaskNext(t))
    /\ WF_vars(SamplerLoop)
    /\ SF_vars(Exit)

\* ------------------------------- main: the sequential run, then the concurrent
\* The metric as the scaling property takes it: the baseline plus sizeMB for
\* every work-unit buffer that is allocated and not yet released.
LiveBuffers ==
    IF fn = "single"
    THEN IF cpc = "rs_hold" THEN 1 ELSE 0
    ELSE Cardinality({t \in TaskIds : tpc[t] = "hold"})

LiveMetric == Baseline + sizeMB * LiveBuffers

\* main lines 165-183: numTasks > 1 units of sizeMB >= 1, sequential run first
InitScale ==
    /\ InitCommon
    /\ pc = [p \in Procs |-> "idle"]
    /\ current = [p \in Procs |-> 0]
    /\ cpc = "mm_start"
    /\ fn = "single"
    /\ numTasks \in 2..MaxTasks
    /\ sizeMB \in 1..MaxSizeMB

\* measureMemory lines 134-135 under that metric
MM_StartLive ==
    /\ Running
    /\ cpc = "mm_start"
    /\ Start(LiveMetric)
    /\ cpc' = "mm_call"
    /\ UNCHANGED <<configVars, peakSeq, lateTick, poolVars, runnerVars, stopCalls, stopRet,
                   stopReturns, panicked>>

\* the polling goroutine's tick under that metric
TickLive ==
    /\ Running
    /\ pc[Sampler] = "select"
    /\ Len(samples) <= MaxTicks
    /\ TickReads(FALSE, LiveMetric)

\* main lines 183-192: the sequential measurement has returned its peak; the
\* concurrent one starts with a tracker of its own
Main_Second ==
    /\ Running
    /\ cpc = "mm_done"
    /\ fn = "single"
    /\ peakSeq' = stopRet
    /\ fn' = "multi"
    /\ cpc' = "mm_start"
    /\ peak' = 0
    /\ stopChan' = "open"
    /\ twg' = 0
    /\ pc' = [pc EXCEPT ![Sampler] = "idle"]
    /\ samples' = << >>
    /\ i' = 0
    /\ runs' = [t \in TaskIds |-> 0]
    /\ startCalls' = 0
    /\ stopCalls' = 0
    /\ stopRet' = NoValue
    /\ stopReturns' = 0
    /\ lateTick' = FALSE
    /\ UNCHANGED <<current, old, readFailed, numTasks, sizeMB, wg, tpc, poolVars,
                   panicked>>

NextScale ==
    \/ MM_StartLive
    \/ MM_CallFn
    \/ RS_Loop
    \/ RS_Alloc
    \/ RS_Finish
    \/ Main_Second
    \/ RM_Add
    \/ RM_Spawn
    \/ RM_Wait
    \/ \E t \in TaskIds : TaskAlloc(t)
    \/ \E t \in TaskIds : TaskFinish(t)
    \/ MM_StopClose
    \/ StopWait
    \/ MM_StopLoad
    \/ TickLive
    \/ Load(Sampler)
    \/ CAS(Sampler)
    \/ Exit

SpecScale == InitScale /\ [][NextScale]_vars

\* ----------------------------------------------- runLoadTest (4.server.go)
\* main, before the flags are parsed
InitLoad ==
    /\ InitCommon
    /\ pc = [p \in Procs |-> "idle"]
    /\ current = [p \in Procs |-> 0]
    /\ cpc = "lt_warm"
    /\ fn = "load"
    /\ numTasks = 0
    /\ sizeMB = 0

\* main lines 118-134 pass the flags -n and -c on as they are; runLoadTest
\* lines 51-66 build the client and make ten warm-up requests
LT_Warmup ==
    /\ Running
    /\ cpc = "lt_warm"
    /\ nItems' \in -1..MaxItems
    /\ nWorkers' \in -1..MaxWorkers
    /\ cpc' = "lt_make"
    /\ UNCHANGED <<trackerVars, loopVars, samples, configVars, peakSeq, lateTick, runnerVars,
                   callVars, panicked, chanBuf, chanClosed, wpc, held, pwg, recvd,
                   served, result, dones>>

\* line 70: work := make(chan struct{}, numRequests); a negative size panics
LT_Make ==
    /\ Running
    /\ cpc = "lt_make"
    /\ IF nItems < 0
       THEN /\ panicked' = "makechan: size out of range"
            /\ UNCHANGED <<cpc, i>>
       ELSE /\ cpc' = "lt_fill"
            /\ i' = 0
            /\ UNCHANGED panicked
    /\ UNCHANGED <<trackerVars, loopVars, samples, configVars, peakSeq, lateTick, poolVars,
                   wg, tpc, runs, callVars>>

\* lines 71-74: one token per request (the buffer holds them all), then close
LT_Fill ==
    /\ Running
    /\ cpc = "lt_fill"
    /\ IF i < nItems
       THEN /\ chanBuf' = Append(chanBuf, i)
            /\ i' = i + 1
            /\ UNCHANGED <<cpc, chanClosed>>
       ELSE /\ chanClosed' = TRUE
            /\ cpc' = "lt_spawn"
            /\ i' = 0
            /\ UNCHANGED chanBuf
    /\ UNCHANGED <<trackerVars, loopVars, samples, configVars, peakSeq, lateTick, wg, tpc,
                   runs, callVars, panicked, nItems, nWorkers, wpc, held, pwg,
                   recvd, served, result, dones>>

\* lines 79-87: wg.Add(1) and one worker goroutine per unit of concurrency
LT_Spawn ==
    /\ Running
    /\ cpc = "lt_spawn"
    /\ IF i < nWorkers
       THEN /\ pwg' = pwg + 1
            /\ wpc' = [wpc EXCEPT ![i + 1] = "recv"]
            /\ i' = i + 1
            /\ UNCHANGED cpc
       ELSE /\ cpc' = "lt_wait"
            /\ UNCHANGED <<pwg, wpc, i>>
    /\ UNCHANGED <<trackerVars, loopVars, samples, configVars, peakSeq, lateTick, wg, tpc,
                   runs, callVars, panicked, nItems, nWorkers, chanBuf, chanClosed,
                   held, recvd, served, result, dones>>

\* a pool whose caller does not join its workers
PoolWaitReturns_noWait(counter) == TRUE

\* line 89: wg.Wait() returns once the counter is zero
PoolWaitReturns(counter) == counter = 0

\* lines 89-98: wg.Wait(), then the report; runLoadTest returns
LT_Wait ==
    /\ Running
    /\ cpc = "lt_wait"
    /\ PoolWaitReturns(pwg)
    /\ cpc' = "lt_done"
    /\ UNCHANGED <<trackerVars, loopVars, samples, configVars, peakSeq, lateTick, poolVars,
                   runnerVars, callVars, panicked>>

\* `for range` over the channel: take the next item, or leave the loop when
\* the channel is closed and drained (the deferred wg.Done runs); a receive
\* from an empty open channel blocks
PoolRecv(w) ==
    /\ Running
    /\ wpc[w] = "recv"
    /\ chanBuf # << >> \/ chanClosed
    /\ IF chanBuf # << >>
       THEN /\ held' = [held EXCEPT ![w] = Head(chanBuf)]
            /\ chanBuf' = Tail(chanBuf)
            /\ recvd' = [recvd EXCEPT ![Head(chanBuf)] = @ + 1]
            /\ wpc' = [wpc EXCEPT ![w] = "work"]
            /\ UNCHANGED <<pwg, dones>>
       ELSE /\ wpc' = [wpc EXCEPT ![w] = "done"]
            /\ pwg' = pwg - 1
            /\ dones' = [dones EXCEPT ![w] = @ + 1]
            /\ UNCHANGED <<held, chanBuf, recvd>>
    /\ UNCHANGED <<trackerVars, loopVars, samples, cpc, configVars, peakSeq, lateTick,
                   runnerVars, callVars, panicked, nItems, nWorkers, chanClosed,
                   served, result>>

\* line 84: makeRequest(client, url); its result is dropped
LT_Request(w) ==
    /\ Running
    /\ wpc[w] = "work"
    /\ served' = [served EXCEPT ![held[w]] = @ + 1]
    /\ wpc' = [wpc EXCEPT ![w] = "recv"]
    /\ UNCHANGED <<trackerVars, loopVars, samples, cpc, configVars, peakSeq, lateTick,
                   runnerVars, callVars, panicked, nItems, nWorkers, chanBuf,
                   chanClosed, held, pwg, recvd, result, dones>>

NextLoad ==
    \/ LT_Warmup
    \/ LT_Make
    \/ LT_Fill
    \/ LT_Spawn
    \/ LT_Wait
    \/ \E w \in WorkerIds : PoolRecv(w)
    \/ \E w \in WorkerIds : LT_Request(w)

SpecLoad == InitLoad /\ [][NextLoad]_vars

\* ------------------------------------------ mandelbrotThreaded (part_002)
\* SIZE is 4000 in the source; the model takes a small raster
SIZE == MaxItems

\* computeRow is a pure function of y: the row's bits are not computed here,
\* the value stands for "the row computed for y"
computeRow(y) == <<"row", y>>

\* mandelbrotSequential: result[y] = computeRow(y) for y = 0 .. SIZE-1, in order
RECURSIVE SequentialLoop(_, _)
SequentialLoop(res, y) ==
    IF y < SIZE
    THEN SequentialLoop([res EXCEPT ![y] = computeRow(y)], y + 1)
    ELSE res

mandelbrotSequential == SequentialLoop([y \in Items |-> Nil], 0)

InitMandel ==
    /\ InitCommon
    /\ pc = [p \in Procs |-> "idle"]
    /\ current = [p \in Procs |-> 0]
    /\ cpc = "mt_make"
    /\ fn = "mandel"
    /\ numTasks = 0
    /\ sizeMB = 0

\* lines 58-62: result, workers := GOMAXPROCS(0) (at least 1), jobs
MT_Make ==
    /\ Running
    /\ cpc = "mt_make"
    /\ nItems' = SIZE
    /\ nWorkers' \in 1..MaxWorkers
    /\ result' = [y \in Items |-> Nil]
    /\ chanBuf' = << >>
    /\ i' = 0
    /\ cpc' = "mt_spawn"
    /\ UNCHANGED <<trackerVars, loopVars, samples, configVars, peakSeq, lateTick, wg, tpc,
                   runs, callVars, panicked, chanClosed, wpc, held, pwg, recvd,
                   served, dones>>

\* lines 64-72: wg.Add(1) and one worker goroutine per worker
MT_Spawn ==
    /\ Running
    /\ cpc = "mt_spawn"
    /\ IF i < nWorkers
       THEN /\ pwg' = pwg + 1
            /\ wpc' = [wpc EXCEPT ![i + 1] = "recv"]
            /\ i' = i + 1
            /\ UNCHANGED cpc
       ELSE /\ cpc' = "mt_send"
            /\ i' = 0
            /\ UNCHANGED <<pwg, wpc>>
    /\ UNCHANGED <<trackerVars, loopVars, samples, configVars, peakSeq, lateTick, wg, tpc,
                   runs, callVars, panicked, nItems, nWorkers, chanBuf, chanClosed,
                   held, recvd, served, result, dones>>

\* lines 74-77: jobs <- y for every row (the buffer holds SIZE), then close(jobs)
MT_Send ==
    /\ Running
    /\ cpc = "mt_send"
    /\ IF i < SIZE
       THEN /\ Len(chanBuf) < SIZE
            /\ chanBuf' = Append(chanBuf, i)
            /\ i' = i + 1
            /\ UNCHANGED <<cpc, chanClosed>>
       ELSE /\ chanClosed' = TRUE
            /\ cpc' = "mt_wait"
            /\ UNCHANGED <<chanBuf, i>>
    /\ UNCHANGED <<trackerVars, loopVars, samples, configVars, peakSeq, lateTick, wg, tpc,
                   runs, callVars, panicked, nItems, nWorkers, wpc, held, pwg,
                   recvd, served, result, dones>>

\* a caller that returns result without joining the workers
MandelWaitReturns_noWait(counter) == TRUE

\* line 79: wg.Wait() returns once the counter is zero
MandelWaitReturns(counter) == counter = 0

\* lines 79-80: wg.Wait(); return result
MT_Wait ==
    /\ Running
    /\ cpc = "mt_wait"
    /\ MandelWaitReturns(pwg)
    /\ cpc' = "mt_done"
    /\ UNCHANGED <<trackerVars, loopVars, samples, configVars, peakSeq, lateTick, poolVars,
                   runnerVars, callVars, panicked>>

\* a receive that reads the next row without taking it off the channel
MB_Recv_peek(w) ==
    /\ Running
    /\ wpc[w] = "recv"
    /\ chanBuf # << >>
    /\ held' = [held EXCEPT ![w] = Head(chanBuf)]
    /\ recvd' = [recvd EXCEPT ![Head(chanBuf)] = @ + 1]
    /\ wpc' = [wpc EXCEPT ![w] = "work"]
    /\ UNCHANGED <<trackerVars, loopVars, samples, cpc, configVars, peakSeq, lateTick,
                   runnerVars, callVars, panicked, nItems, nWorkers, chanBuf,
                   chanClosed, pwg, served, result, dones>>

\* lines 67-68: for y := range jobs, with the deferred wg.Done
MB_Recv(w) == PoolRecv(w)

\* line 69: result[y] = computeRow(y)
MB_Write(w) ==
    /\ Running
    /\ wpc[w] = "work"
    /\ result' = [result EXCEPT ![held[w]] = computeRow(held[w])]
    /\ served' = [served EXCEPT ![held[w]] = @ + 1]
    /\ wpc' = [wpc EXCEPT ![w] = "recv"]
    /\ UNCHANGED <<trackerVars, loopVars, samples, cpc, configVars, peakSeq, lateTick,
                   runnerVars, callVars, panicked, nItems, nWorkers, chanBuf,
                   chanClosed, held, pwg, recvd, dones>>

MandelCaller == MT_Make \/ MT_Spawn \/ MT_Send \/ MT_Wait

MandelWorker(w) == MB_Recv(w) \/ MB_Write(w)

NextMandel ==
    \/ MT_Make
    \/ MT_Spawn
    \/ MT_Send
    \/ MT_Wait
    \/ \E w \in WorkerIds : MB_Recv(w)
    \/ \E w \in WorkerIds : MB_Write(w)

SpecMandel == InitMandel /\ [][NextMandel]_vars

\* every runnable goroutine is scheduled
FairMandel ==
    /\ SpecMandel
    /\ WF_vars(MandelCaller)
    /\ \A w \in WorkerIds : WF_vars(MandelWorker(w))

\* -------------------------------------------------- fetchURLs (part_001)
\* One goroutine per URL, numbered 1..len(urls); the text extracted from the
\* page of URL u is identified by u.
InitFetch ==
    /\ InitCommon
    /\ pc = [p \in Procs |-> "idle"]
    /\ current = [p \in Procs |-> 0]
    /\ cpc = "fu_make"
    /\ fn = "fetch"
    /\ numTasks = 0
    /\ sizeMB = 0

\* lines 59-60: ch := make(chan string, len(urls)); var wg
FU_Make ==
    /\ Running
    /\ cpc = "fu_make"
    /\ \E n \in 0..MaxWorkers :
          /\ nItems' = n
          /\ nWorkers' = n
    /\ chanBuf' = << >>
    /\ i' = 0
    /\ cpc' = "fu_spawn"
    /\ UNCHANGED <<trackerVars, loopVars, samples, configVars, peakSeq, lateTick,
                   wg, tpc, runs, callVars, panicked, chanClosed, wpc, held, pwg,
                   recvd, served, result, dones>>

\* lines 61-64: for each URL, wg.Add(1) and go fetch(u, &wg, ch)
FU_Spawn ==
    /\ Running
    /\ cpc = "fu_spawn"
    /\ IF i < nItems
       THEN /\ pwg' = pwg + 1
            /\ wpc' = [wpc EXCEPT ![i + 1] = "get"]
            /\ i' = i + 1
            /\ UNCHANGED cpc
       ELSE /\ cpc' = "fu_wait"
            /\ UNCHANGED <<pwg, wpc, i>>
    /\ UNCHANGED <<trackerVars, loopVars, samples, configVars, peakSeq, lateTick,
                   wg, tpc, runs, callVars, panicked, nItems, nWorkers, chanBuf,
                   chanClosed, held, recvd, served, result, dones>>

\* a caller that closes the channel without joining the goroutines
FetchWaitReturns_noWait(counter) == TRUE

\* line 65: wg.Wait() returns once the counter is zero
FetchWaitReturns(counter) == counter = 0

FU_Wait ==
    /\ Running
    /\ cpc = "fu_wait"
    /\ FetchWaitReturns(pwg)
    /\ cpc' = "fu_close"
    /\ UNCHANGED <<trackerVars, loopVars, samples, configVars, peakSeq, lateTick,
                   poolVars, runnerVars, callVars, panicked>>

\* lines 66-67: close(ch); return ch
FU_Close ==
    /\ Running
    /\ cpc = "fu_close"
    /\ chanClosed' = TRUE
    /\ cpc' = "fu_done"
    /\ UNCHANGED <<trackerVars, loopVars, samples, configVars, peakSeq, lateTick,
                   runnerVars, callVars, panicked, nItems, nWorkers, chanBuf, wpc,
                   held, pwg, recvd, served, result, dones>>

\* lines 32-35: resp, err := http.Get(url); on an error return (to the deferred
\* Done), otherwise defer resp.Body.Close() and go on
F_Get(u) ==
    /\ Running
    /\ wpc[u] = "get"
    /\ \E err \in BOOLEAN :
          wpc' = [wpc EXCEPT ![u] = IF err THEN "deferDone" ELSE "read"]
    /\ UNCHANGED <<trackerVars, loopVars, samples, cpc, configVars, peakSeq,
                   lateTick, runnerVars, callVars, panicked, nItems, nWorkers,
                   chanBuf, chanClosed, held, pwg, recvd, served, result, dones>>

\* lines 36-37: body, _ := ioutil.ReadAll(resp.Body); text := extractText(body)
F_Extract(u) ==
    /\ Running
    /\ wpc[u] = "read"
    /\ held' = [held EXCEPT ![u] = u]
    /\ wpc' = [wpc EXCEPT ![u] = "send"]
    /\ UNCHANGED <<trackerVars, loopVars, samples, cpc, configVars, peakSeq,
                   lateTick, runnerVars, callVars, panicked, nItems, nWorkers,
                   chanBuf, chanClosed, pwg, recvd, served, result, dones>>

\* line 38: ch <- text; a send on a closed channel panics, a send on a full
\* one blocks
F_Send(u) ==
    /\ Running
    /\ wpc[u] = "send"
    /\ IF chanClosed
       THEN /\ panicked' = "send on closed channel"
            /\ UNCHANGED <<chanBuf, wpc>>
       ELSE /\ Len(chanBuf) < nItems
            /\ chanBuf' = Append(chanBuf, held[u])
            /\ wpc' = [wpc EXCEPT ![u] = "closeBody"]
            /\ UNCHANGED panicked
    /\ UNCHANGED <<trackerVars, loopVars, samples, cpc, configVars, peakSeq,
                   lateTick, runnerVars, callVars, nItems, nWorkers, chanClosed,
                   held, pwg, recvd, served, result, dones>>

\* line 35, deferred: resp.Body.Close()
F_CloseBody(u) ==
    /\ Running
    /\ wpc[u] = "closeBody"
    /\ wpc' = [wpc EXCEPT ![u] = "deferDone"]
    /\ UNCHANGED <<trackerVars, loopVars, samples, cpc, configVars, peakSeq,
                   lateTick, runnerVars, callVars, panicked, nItems, nWorkers,
                   chanBuf, chanClosed, held, pwg, recvd, served, result, dones>>

\* line 31, deferred: wg.Done()
F_Done(u) ==
    /\ Running
    /\ wpc[u] = "deferDone"
    /\ pwg' = pwg - 1
    /\ dones' = [dones EXCEPT ![u] = @ + 1]
    /\ wpc' = [wpc EXCEPT ![u] = "done"]
    /\ UNCHANGED <<trackerVars, loopVars, samples, cpc, configVars, peakSeq,
                   lateTick, runnerVars, callVars, panicked, nItems, nWorkers,
                   chanBuf, chanClosed, held, recvd, served, result>>

NextFetch ==
    \/ FU_Make
    \/ FU_Spawn
    \/ FU_Wait
    \/ FU_Close
    \/ \E u \in WorkerIds : F_Get(u)
    \/ \E u \in WorkerIds : F_Extract(u)
    \/ \E u \in WorkerIds : F_Send(u)
    \/ \E u \in WorkerIds : F_CloseBody(u)
    \/ \E u \in WorkerIds : F_Done(u)

SpecFetch == InitFetch /\ [][NextFetch]_vars

\* ------------------------------------------- writers contending on one peak
\* every writer is about to run the CAS loop of lines 61-69 with its proposal
InitCAS ==
    /\ InitCommon
    /\ pc = [p \in Procs |-> IF p = Sampler THEN "idle" ELSE "load"]
    /\ current = [p \in Procs |-> IF p = Sampler THEN 0 ELSE Proposals[p]]
    /\ cpc = "simulate"
    /\ fn = "multi"
    /\ numTasks = 0
    /\ sizeMB = 1

NextCAS == \E p \in Writers : Load(p) \/ CAS(p)

SpecCAS == InitCAS /\ [][NextCAS]_vars

\* ------------------------------------ a caller free to misuse the tracker
InitAPI ==
    /\ InitCommon
    /\ pc = [p \in Procs |-> "idle"]
    /\ current = [p \in Procs |-> 0]
    /\ cpc = "idle"
    /\ fn = "single"
    /\ numTasks = 0
    /\ sizeMB = 1

\* t.Start(), at most once per tracker, as measureMemory calls it
API_Start ==
    /\ Running
    /\ cpc = "idle"
    /\ startCalls = 0
    /\ \E s \in Readings : Start(s)
    /\ UNCHANGED <<cpc, configVars, peakSeq, lateTick, poolVars, runnerVars, stopCalls, stopRet, stopReturns,
                   panicked>>

\* t.Stop(), whatever the tracker's state
API_StopClose ==
    /\ stopCalls < MaxStops
    /\ StopClose("idle")

API_StopLoad == StopLoad("idle")

NextAPI ==
    \/ API_Start
    \/ API_StopClose
    \/ StopWait
    \/ API_StopLoad
    \/ Tick
    \/ Load(Sampler)
    \/ CAS(Sampler)
    \/ Exit

SpecAPI == InitAPI /\ [][NextAPI]_vars

\* ================================================================= claims
StopReturned == stopRet # NoValue

\* C1: the value Stop returns is >= every sample fed to the tracker (Start's
\* first sample, then each tick's) and equals the maximum of that sequence.
C1_StopReturnsMax ==
    StopReturned =>
        /\ \A k \in 1..Len(samples) : stopRet >= samples[k]
        /\ stopRet = SeqMax(samples)

\* Stop returned a maximum that was neither the first nor the last sample
C1_Witness ==
    /\ StopReturned
    /\ Len(samples) = 3
    /\ samples[2] > samples[1]
    /\ samples[2] > samples[3]
    /\ stopRet = samples[2]

AllWritersDone == \A p \in Writers : pc[p] = "done"

\* C2: writers proposing 10, 50, 30, 80, 20 through the CAS loop leave the
\* shared peak at 80 once all have finished, whatever the interleaving.
C2_FinalPeakIs80 == AllWritersDone => peak = 80

\* all writers finished; 50 replaced 10, and 20 was loaded against 80 and dropped
C2_Witness ==
    /\ AllWritersDone
    /\ old[2] = 10
    /\ old[4] = 50
    /\ old[5] = 80

\* C3: Stop reads the peak only after the polling goroutine has exited; once
\* Stop has returned the goroutine is gone, the stored peak no longer changes
\* and the returned value is the stored peak.
C3_StopJoinsThenReads ==
    /\ [](cpc = "stop_load" => pc[Sampler] = "exited" /\ twg = 0)
    /\ [](StopReturned => pc[Sampler] = "exited" /\ stopRet = peak)
    /\ [][StopReturned => peak' = peak /\ pc'[Sampler] = "exited"]_vars

\* Stop returned a peak that a tick had raised above Start's sample
C3_Witness ==
    /\ StopReturned
    /\ cpc = "mm_done"
    /\ Len(samples) > 1
    /\ stopRet > samples[1]

\* C4: no step replaces the stored peak with a smaller value.
C4_PeakMonotone == [][peak' >= peak]_vars

\* the peak rose above Start's sample and a later, smaller sample left it alone
C4_Witness ==
    /\ Len(samples) = 3
    /\ samples[1] < samples[2]
    /\ samples[3] < samples[2]
    /\ pc[Sampler] = "select"
    /\ peak = samples[2]

\* a successful CompareAndSwap by p that installs a strictly greater sample
CasStep(p) ==
    /\ pc[p] = "cas"
    /\ pc'[p] # "cas"
    /\ peak = old[p]
    /\ peak' = current[p]
    /\ peak' > peak

\* Start's Store of the first sample, before the polling goroutine exists
StartStore ==
    /\ startCalls' = startCalls + 1
    /\ pc[Sampler] = "idle"
    /\ peak' = samples'[Len(samples')]

\* C5 as stated: every change of the peak is a compare-and-swap that installs
\* a strictly greater sample; nothing overwrites the peak unconditionally.
C5_OnlyCAS == [][peak' # peak => \E p \in Procs : CasStep(p)]_vars

\* C5 amended: apart from Start's Store of the first sample, made before the
\* polling goroutine is spawned, every change of the peak is a
\* compare-and-swap that installs a strictly greater sample.
C5_OnlyCASAfterStart ==
    [][peak' # peak => StartStore \/ \E p \in Procs : CasStep(p)]_vars

\* a tick's sample has replaced the peak that Start stored
C5_Witness ==
    /\ Len(samples) > 1
    /\ samples[1] > 0
    /\ peak > samples[1]

\* C6: a second Stop on a stopped tracker panics (close of a closed channel):
\* at most one call of Stop ever returns a value.
C6_SecondStopPanics ==
    /\ stopReturns <= 1
    /\ stopCalls >= 2 => panicked = "close of closed channel"

\* Start, a Stop that returned a peak, then a second Stop that panicked
C6_Witness ==
    /\ startCalls = 1
    /\ stopCalls = 2
    /\ stopReturns = 1
    /\ stopRet > 0
    /\ panicked = "close of closed channel"

\* C7: Stop on a tracker that was never started does not return a peak value
\* normally.
C7_StopBeforeStartFails == ~(stopReturns > 0 /\ startCalls = 0)

\* a configuration the spec calls invalid
InvalidConfig == numTasks <= 0 \/ sizeMB <= 0

SamplerLive == pc[Sampler] \in {"select", "load", "cas"}

\* C8: when an invalid configuration makes the measurement fail, no sampler
\* goroutine is running: the failure comes before Start.
C8_FailsBeforeSampler == (InvalidConfig /\ panicked # "none") => ~SamplerLive

InMulti == fn = "multi" /\ cpc \in {"rm_add", "rm_spawn", "rm_wait"}

AfterRunner == cpc \in {"mm_stop", "stop_wait", "stop_load", "mm_done"}

MultiReturned == fn = "multi" /\ AfterRunner

\* no unit runs twice, and once runMultiThreaded has returned each of the
\* numTasks units has run to completion exactly once
BarrierSafe ==
    (fn = "multi" /\ numTasks >= 0) =>
        /\ \A t \in TaskIds : runs[t] <= 1
        /\ MultiReturned =>
              \A t \in TaskIds :
                  IF t <= numTasks
                  THEN runs[t] = 1 /\ tpc[t] = "done"
                  ELSE runs[t] = 0 /\ tpc[t] = "idle"

ConfigPanics ==
    \/ fn = "multi" /\ numTasks < 0
    \/ numTasks >= 1 /\ sizeMB <= 0

\* C10: a tick whose metric read fails reads as 0: the loop breaks at the
\* comparison, the peak is left as it was, the goroutine is back at its
\* select, no other goroutine is disturbed, and the runner still completes.
C10_FailedReadIsZero ==
    /\ [](readFailed => current[Sampler] = 0 /\ pc[Sampler] = "load")
    /\ [][readFailed => peak' = peak]_vars
    /\ [][(readFailed /\ ~readFailed') =>
            /\ pc'[Sampler] = "select"
            /\ UNCHANGED <<cpc, runnerVars, panicked>>]_vars
    /\ (readFailed /\ ~ConfigPanics) ~> AfterRunner

\* a read failed while a positive peak was stored and the runner was at work
C10_Witness ==
    /\ readFailed
    /\ peak > 0
    /\ cpc \in {"rs_hold", "rm_wait"}

InRunner == cpc \in {"mm_call", "rs_loop", "rs_alloc", "rs_hold", "rm_add", "rm_spawn", "rm_wait"}

\* every sample fed to the tracker equals the one Start recorded
MetricConstant == \A k \in 1..Len(samples) : samples[k] = samples[1]

\* C11: with zero work units neither runner executes a unit, panics or blocks
\* (the caller always has a next step), and the window's Stop returns the
\* baseline sample Start recorded when the metric does not change.
C11_ZeroBatch ==
    numTasks = 0 =>
        /\ Running
        /\ \A t \in TaskIds : runs[t] = 0 /\ tpc[t] = "idle"
        /\ cpc \notin {"rs_alloc", "rs_hold"}
        /\ InRunner => ENABLED CallerNext
        /\ (StopReturned /\ MetricConstant) => stopRet = samples[1]

\* a zero-unit concurrent run whose window returned the unchanged baseline
C11_Witness ==
    /\ numTasks = 0
    /\ fn = "multi"
    /\ StopReturned
    /\ Len(samples) = 3
    /\ MetricConstant
    /\ samples[1] > 0
    /\ stopRet = samples[1]

BothMeasured == fn = "multi" /\ cpc = "mm_done" /\ peakSeq # NoValue

SampledTwoLive ==
    \E k \in 1..Len(samples) : samples[k] >= Baseline + 2 * sizeMB

C13_NoRunWithoutWorkers ==
    ~(cpc = "lt_done" /\ nWorkers <= 0 /\ chanBuf # << >>)

\* C19: with concurrency >= 1 and numRequests >= 0 every token is received by
\* at most one worker and requested at most once; a worker leaves only when
\* the closed channel is drained, signalling Done once; and when wg.Wait has
\* returned exactly numRequests requests have been made, one per token, and
\* every worker has exited.
C19_ExactlyNumRequests ==
    (nWorkers >= 1 /\ nItems >= 0) =>
        /\ \A y \in Items : recvd[y] <= 1 /\ served[y] <= recvd[y]
        /\ \A w \in WorkerIds :
              wpc[w] = "done" => chanClosed /\ chanBuf = << >> /\ dones[w] = 1
        /\ cpc = "lt_done" =>
              /\ \A y \in Items : served[y] = IF y < nItems THEN 1 ELSE 0
              /\ \A w \in WorkerIds : wpc[w] = IF w <= nWorkers THEN "done" ELSE "idle"
              /\ chanBuf = << >>
              /\ pwg = 0

\* runLoadTest returned after two workers had shared three requests
C19_Witness ==
    /\ cpc = "lt_done"
    /\ nItems = 3
    /\ nWorkers = 2
    /\ held[1] # NoItem
    /\ held[2] # NoItem
    /\ \A y \in 0..2 : served[y] = 1

\* C14: Start never blocks and returns to its caller in the step that spawns
\* the polling goroutine; each call spawns exactly one, registered once in
\* the WaitGroup, and from Start until Stop is called it is the one live
\* polling goroutine of the tracker.
C14_OneGoroutinePerStart ==
    /\ []((cpc = "mm_start" /\ Running) => ENABLED MM_Start)
    /\ [][startCalls' = startCalls + 1 =>
            /\ pc[Sampler] = "idle"
            /\ pc'[Sampler] = "select"
            /\ twg' = twg + 1
            /\ cpc' = "mm_call"]_vars
    /\ [](twg = IF SamplerLive THEN 1 ELSE 0)
    /\ []((startCalls = 1 /\ stopCalls = 0) => SamplerLive)

\* the caller is waiting on its runner while the goroutine Start spawned swaps
C14_Witness ==
    /\ startCalls = 1
    /\ stopCalls = 0
    /\ cpc = "rm_wait"
    /\ pc[Sampler] = "cas"
    /\ twg = 1

Spawned(w) == w <= nWorkers /\ wpc[w] # "idle"

\* C15: every row put on jobs is received by exactly one worker, no two
\* workers write the same slot of result, a worker leaves only at the closed
\* and drained channel and does leave once it is, and mandelbrotThreaded
\* returns only after all workers have exited.
C15_RowsOncePoolJoined ==
    /\ [](\A y \in Items : recvd[y] <= 1 /\ served[y] <= 1)
    /\ [](\A v, w \in WorkerIds :
            (v # w /\ wpc[v] = "work" /\ wpc[w] = "work") => held[v] # held[w])
    /\ [](\A w \in WorkerIds : wpc[w] = "done" => chanClosed /\ chanBuf = << >>)
    /\ [](cpc = "mt_done" =>
            /\ \A y \in 0..(SIZE - 1) : recvd[y] = 1
            /\ \A w \in WorkerIds : wpc[w] = IF w <= nWorkers THEN "done" ELSE "idle")
    /\ (chanClosed /\ chanBuf = << >>) ~> (\A w \in WorkerIds : wpc[w] # "recv" /\ wpc[w] # "work")

\* mandelbrotThreaded returned after two workers had each taken rows
C15_Witness ==
    /\ cpc = "mt_done"
    /\ nWorkers = 2
    /\ held[1] # NoItem
    /\ held[2] # NoItem
    /\ \A y \in 0..(SIZE - 1) : recvd[y] = 1

\* C16: for any number of workers >= 1 and any interleaving, the slice
\* mandelbrotThreaded returns equals the one mandelbrotSequential builds:
\* result[y] = computeRow(y) for every y in 0..SIZE-1.
C16_ThreadedEqualsSequential ==
    cpc = "mt_done" =>
        /\ result = mandelbrotSequential
        /\ \A y \in 0..(SIZE - 1) : result[y] = computeRow(y)

\* the result is complete although the last row was written before an earlier one
C16_Witness ==
    /\ cpc = "mt_done"
    /\ nWorkers = 2
    /\ held[1] = SIZE - 1
    /\ held[2] = SIZE - 2
    /\ result = mandelbrotSequential

StopCalled == startCalls >= 1 /\ stopChan = "closed"

\* C17: under fair scheduling, once Stop has been called on a started tracker
\* the polling goroutine eventually exits and Stop eventually returns, also
\* when the ticker keeps being ready together with the stop signal; and with
\* the one polling goroutine a CompareAndSwap never fails, so the retry loop
\* makes at most one attempt per tick.
C17_StopTerminates ==
    /\ StopCalled ~> (pc[Sampler] = "exited" /\ StopReturned)
    /\ [](pc[Sampler] = "cas" => CasSucceeds(peak, old[Sampler]))
    /\ [][pc[Sampler] = "cas" => pc'[Sampler] \in {"cas", "select"}]_vars

\* Stop returned although the goroutine took a tick, and swapped a new peak in,
\* while the stop signal was already ready
C17_Witness ==
    /\ lateTick
    /\ pc[Sampler] = "exited"
    /\ StopReturned
    /\ stopRet > samples[1]
    /\ Len(samples) > MaxTicks

\* the URLs whose http.Get succeeded
Fetched == {u \in 1..nItems : held[u] # NoItem}

\* how many times text t is in the channel
Copies(t) == Cardinality({k \in 1..Len(chanBuf) : chanBuf[k] = t})

\* C18: fetchURLs never deadlocks and never sends on a closed channel: the
\* channel's capacity is the number of URLs, so no send finds it full; every
\* fetch goroutine calls Done exactly once, on the error path and on the
\* success path; the channel is closed only after all goroutines finished;
\* the returned channel holds exactly one text per successful fetch.
C18_FetchJoinsThenCloses ==
    /\ panicked = "none"
    /\ cpc # "fu_done" => ENABLED NextFetch
    /\ \A u \in WorkerIds :
         /\ wpc[u] = "send" => Len(chanBuf) < nItems /\ ~chanClosed
         /\ dones[u] = IF wpc[u] = "done" THEN 1 ELSE 0
    /\ chanClosed => \A u \in WorkerIds : wpc[u] = IF u <= nItems THEN "done" ELSE "idle"
    /\ cpc = "fu_done" =>
         /\ chanClosed
         /\ Len(chanBuf) = Cardinality(Fetched)
         /\ \A u \in WorkerIds : Copies(u) = IF u \in Fetched THEN 1 ELSE 0

\* fetchURLs returned after one fetch succeeded and another failed
C18_Witness ==
    /\ cpc = "fu_done"
    /\ nItems = 2
    /\ dones[1] = 1
    /\ dones[2] = 1
    /\ held[1] = NoItem
    /\ chanBuf = <<2>>

=============================================================================
